---- MODULE Spec2Model ----
(***************************************************************************)
(* A model of xapiand/core.py: the pool of shard handles, the assembly and *)
(* the reopening of composite databases, and the index / delete / commit   *)
(* write path.  Python calls are operators from a heap record to a result  *)
(* record [st, ret, exc]; one action of the model is one call of an entry  *)
(* point of the module.                                                    *)
(***************************************************************************)
EXTENDS Integers, Sequences, FiniteSets, TLC

VARIABLES databases_pool, handles, composites, arrays, created, shards, indexed, last, threads

vars == <<databases_pool, handles, composites, arrays, created, shards, indexed, last, threads>>

(***************************************************************************)
(* Bounds of the model.                                                    *)
(***************************************************************************)
\* Composite objects ever created (every full rebuild creates one).
MaxComposites == 2

\* Threads calling into the module at the same time.
NumThreads == 2

\* The highest document number a shard gives out.
MaxDocId == 3

(***************************************************************************)
(* Python values.                                                          *)
(***************************************************************************)
\* Python's None, in slots that hold a handle id (1, 2, ...) or nothing.
None == 0

\* No exception is propagating.
NoExc == "none"

\* A result of a call: the heap after it, the value returned, the exception raised.
Return(S, v) == [st |-> S, ret |-> v, exc |-> NoExc]

Raise(S, e) == [st |-> S, ret |-> None, exc |-> e]

\* The trace of the running entry point: the engine calls and log calls made, and for
\* every resolution of a shard the handle it returned ("resolved") or the failure of
\* its open ("open_failed").
Event(S, op, on) == [S EXCEPT !.events = Append(@, [op |-> op, on |-> on])]

(***************************************************************************)
(* Endpoints: a path (a string) or a (host, port, timeout) tuple.          *)
(***************************************************************************)
Local(path) == [kind |-> "local", path |-> path]

Remote(host, port, timeout) == [kind |-> "remote", host |-> host, port |-> port, timeout |-> timeout]

\* isinstance(db, basestring)
IsPath(db) == db.kind = "local"

\* key = path
PathKey(path) == path

\* key = (host, port,)
HostPortKey(host, port) == [kind |-> "remote", host |-> host, port |-> port]

\* The key of the pool under which a composite of these endpoints is kept: the tuple itself.
EndpointsKey(endpoints) == [kind |-> "set", endpoints |-> endpoints]

RECURSIVE AppendLocations(_, _, _)
AppendLocations(endpoints, locations, timeout) ==
    IF locations = <<>> THEN endpoints
    ELSE AppendLocations(Append(endpoints, Remote(Head(locations)[1], Head(locations)[2], timeout)),
                         Tail(locations), timeout)

xapian_endpoints(paths, locations, timeout) ==
    AppendLocations([i \in 1..Len(paths) |-> Local(paths[i])], locations, timeout)

(***************************************************************************)
(* The inputs of the model.                                                *)
(***************************************************************************)
PathA == Local("a")
RemoteT1 == Remote("h", 9, 1)
RemoteT2 == Remote("h", 9, 2)

\* The shard descriptors handed to index / delete / commit.
Endpoints == {PathA, RemoteT1, RemoteT2}

\* The endpoint tuples handed to xapian_database.
EndpointSets ==
    { xapian_endpoints(<<"a">>, <<<<"h", 9>>>>, 1) }

\* The pool key of a shard descriptor, as _xapian_database_open and _xapian_database_connect compute it.
SubKey(db) == IF IsPath(db) THEN PathKey(db) ELSE HostPortKey(db.host, db.port)

SubKeys == {SubKey(db) : db \in Endpoints}

SeqRange(s) == {s[i] : i \in 1..Len(s)}

\* [x] * n
RECURSIVE Repeat(_, _)
Repeat(x, n) == IF n = 0 THEN <<>> ELSE Append(Repeat(x, n - 1), x)

(***************************************************************************)
(* The engine's answers during one call: the environment of the call.      *)
(*   openErr   the shard whose open or connect fails, and the engine       *)
(*             exception raised (an assembly stops at the first failure,   *)
(*             so one failing shard per call decides the outcome)          *)
(*   reopenBad the shards whose handle's reopen() fails                    *)
(*   compBad   whether reopen() of the composite fails                     *)
(* A call is given the answers it can ask for: a fault of a shard that the *)
(* pool already holds (never opened again) or the reopen of a shard that   *)
(* no slot holds changes nothing.                                          *)
(***************************************************************************)
NoFault == [key |-> [kind |-> "nokey"], exc |-> NoExc]

LocalOpenErrors == {"DatabaseLockError", "DatabaseOpeningError", "DatabaseError"}

OpenFaults(keys) ==
    {NoFault}
    \cup {[key |-> k, exc |-> e] : k \in {x \in keys : x.kind = "local"}, e \in LocalOpenErrors}
    \cup {[key |-> k, exc |-> "NetworkError"] : k \in {x \in keys : x.kind = "remote"}}

Envs(openable, reopenable, comp) ==
    [openErr : OpenFaults(openable), reopenBad : SUBSET reopenable, compBad : comp]

QuietEnv == [openErr |-> NoFault, reopenBad |-> {}, compBad |-> FALSE]

(***************************************************************************)
(* The engine: opening and connecting.                                     *)
(***************************************************************************)
\* A new handle object on the heap.
NewHandle(S, key, writable) ==
    Return([S EXCEPT !.handles = Append(@, [key |-> key, writable |-> writable, closed |-> FALSE])],
           Len(S.handles) + 1)

\* A writer holds the lock of a local shard while its handle is open.
Locked(S, key) ==
    \E h \in 1..Len(S.handles) :
        S.handles[h].key = key /\ S.handles[h].writable /\ ~S.handles[h].closed

\* xapian.WritableDatabase(path, xapian.DB_CREATE_OR_OPEN)
xapian_WritableDatabase(S, path, env) ==
    IF env.openErr.key = path THEN Raise(S, env.openErr.exc)
    ELSE IF Locked(S, path) THEN Raise(S, "DatabaseLockError")
    ELSE NewHandle([S EXCEPT !.created = @ \cup {path}], path, TRUE)

\* xapian.Database(path): a reader takes no lock, and finds no index before one is created.
xapian_Database(S, path, env) ==
    IF env.openErr.key = path /\ env.openErr.exc # "DatabaseLockError" THEN Raise(S, env.openErr.exc)
    ELSE IF path \notin S.created THEN Raise(S, "DatabaseOpeningError")
    ELSE NewHandle(S, path, FALSE)

\* database.close()
CloseHandle(S, h) == [S EXCEPT !.handles[h].closed = TRUE]

\* xapian.remote_open_writable(host, port, timeout)
xapian_remote_open_writable(S, host, port, timeout, env) ==
    IF env.openErr.key = HostPortKey(host, port) THEN Raise(S, env.openErr.exc)
    ELSE NewHandle(S, HostPortKey(host, port), TRUE)

\* xapian.remote_open(host, port, timeout)
xapian_remote_open(S, host, port, timeout, env) ==
    IF env.openErr.key = HostPortKey(host, port) THEN Raise(S, env.openErr.exc)
    ELSE NewHandle(S, HostPortKey(host, port), FALSE)

(***************************************************************************)
(* The pool of shard handles.                                              *)
(***************************************************************************)
\* key in databases_pool
InPoolNever(pool, key) == FALSE

InPool(pool, key) == key \in DOMAIN pool

\* databases_pool[key] = database
PoolStore(S, key, database) == [S EXCEPT !.pool = (key :> database) @@ @]

\* A full reopen that leaves the entry of the pool.
PoolDeleteNothing(S, key) == S

\* del _databases_pool[_endpoints]
PoolDelete(S, key) == [S EXCEPT !.pool = [k \in DOMAIN @ \ {key} |-> @[k]]]

\* Lines 58 to 61: no index could be read, so one is created, closed and read again.
CloseAndRead(made, path, env) ==
    IF made.exc # NoExc THEN made
    ELSE xapian_Database(CloseHandle(made.st, made.ret), path, env)

CreateUnlessRead(first, path, env) ==
    IF first.exc = NoExc THEN first
    ELSE CloseAndRead(xapian_WritableDatabase(first.st, path, env), path, env)

\* The try block of _xapian_database_open: the engine's open of a local shard.
OpenLocalTry(S, path, writable, env) ==
    IF writable THEN xapian_WritableDatabase(S, path, env)
    ELSE CreateUnlessRead(xapian_Database(S, path, env), path, env)

\* Lines 62 to 69: the engine's errors become InvalidIndexError; a handle is stored and returned.
StoreOpened(o, key) ==
    IF o.exc = "DatabaseLockError"
    THEN Raise(Event(o.st, "open_failed", None), "InvalidIndexError: Unable to lock index")
    ELSE IF o.exc = "DatabaseOpeningError"
    THEN Raise(Event(o.st, "open_failed", None), "InvalidIndexError: Unable to open index")
    ELSE IF o.exc = "DatabaseError"
    THEN Raise(Event(o.st, "open_failed", None), "InvalidIndexError: Unable to use index")
    ELSE IF o.exc # NoExc THEN o
    ELSE Return(Event(PoolStore(o.st, key, o.ret), "resolved", o.ret), o.ret)

_xapian_database_open(S, path, writable, env) ==
    IF InPool(S.pool, PathKey(path))
    THEN Return(Event(S, "resolved", S.pool[PathKey(path)]), S.pool[PathKey(path)])
    ELSE StoreOpened(OpenLocalTry(S, path, writable, env), PathKey(path))

\* Lines 81 to 84.
StoreConnected(o, key) ==
    IF o.exc = "NetworkError"
    THEN Raise(Event(o.st, "open_failed", None), "InvalidIndexError: Unable to connect to index")
    ELSE IF o.exc # NoExc THEN o
    ELSE Return(Event(PoolStore(o.st, key, o.ret), "resolved", o.ret), o.ret)

_xapian_database_connect(S, host, port, timeout, writable, env) ==
    IF InPool(S.pool, HostPortKey(host, port))
    THEN Return(Event(S, "resolved", S.pool[HostPortKey(host, port)]), S.pool[HostPortKey(host, port)])
    ELSE StoreConnected(IF writable THEN xapian_remote_open_writable(S, host, port, timeout, env)
                        ELSE xapian_remote_open(S, host, port, timeout, env),
                        HostPortKey(host, port))

_xapian_subdatabase(S, db, writable, env) ==
    IF IsPath(db) THEN _xapian_database_open(S, db, writable, env)
    ELSE _xapian_database_connect(S, db.host, db.port, db.timeout, writable, env)

(***************************************************************************)
(* Composite databases.  A composite object has the attributes             *)
(* _all_databases and _all_databases_config, two lists that are created    *)
(* together and assigned together: `arr' names the pair, so that two       *)
(* composites given the same lists share them.  `attached' is the          *)
(* aggregated view: the handles passed to add_database, in order.          *)
(***************************************************************************)
\* An entry of _all_databases_config that is still None.
NoConfig == [fn |-> "None"]

\* (_xapian_subdatabase, (databases_pool, db, writable, data, log))
Config(db, writable) == [fn |-> "_xapian_subdatabase", db |-> db, writable |-> writable]

\* xapian.WritableDatabase() or xapian.Database(), with the four attributes set on it.
NewComposite(S, endpoints, writable) ==
    Return([S EXCEPT !.composites = Append(@, [writable |-> writable, endpoints |-> endpoints,
                                                arr |-> Len(S.arrays) + 1, attached |-> <<>>]),
                     !.arrays = Append(@, [dbs |-> Repeat(None, Len(endpoints)),
                                           cfg |-> Repeat(NoConfig, Len(endpoints))])],
           Len(S.composites) + 1)

\* database.add_database(_database)
add_database(S, database, sub) == [S EXCEPT !.composites[database].attached = Append(@, sub)]

\* A composite to which no handle is attached.
AttachNothing(S, database, sub) == S

\* if _database: database.add_database(_database)
AttachIf(S, database, sub) == IF sub # None THEN add_database(S, database, sub) ELSE S

\* An assembly that writes the handle to the slot and no recipe.
FillSlotWithoutRecipe(S, arr, n, sub, config) == [S EXCEPT !.arrays[arr].dbs[n] = sub]

\* Lines 32 and 33: the handle and its recipe are written to the slot.
FillSlot(S, arr, n, sub, config) ==
    [S EXCEPT !.arrays[arr].dbs[n] = sub, !.arrays[arr].cfg[n] = config]

\* The loop of _xapian_database over the endpoints, from the n-th on.
RECURSIVE AssembleFrom(_, _, _, _, _, _)
RECURSIVE Assembled(_, _, _, _, _, _)
Assembled(r, database, endpoints, writable, env, n) ==
    IF r.exc # NoExc THEN r
    ELSE AssembleFrom(AttachIf(FillSlot(r.st, r.st.composites[database].arr, n, r.ret,
                                        Config(endpoints[n], writable)),
                               database, r.ret),
                      database, endpoints, writable, env, n + 1)

\* An assembly that resolves every slot again, filled or not.
AssembleEverySlot(S, database, endpoints, writable, env, n) ==
    IF n > Len(endpoints) THEN Return(S, database)
    ELSE Assembled(_xapian_subdatabase(S, endpoints[n], writable, env),
                   database, endpoints, writable, env, n)

AssembleFrom(S, database, endpoints, writable, env, n) ==
    IF n > Len(endpoints) THEN Return(S, database)
    ELSE IF S.arrays[S.composites[database].arr].dbs[n] # None
         THEN AssembleFrom(S, database, endpoints, writable, env, n + 1)
    ELSE Assembled(_xapian_subdatabase(S, endpoints[n], writable, env),
                   database, endpoints, writable, env, n)

\* Lines 16 to 28: the composite of the pool, or a new one stored in it.
PooledOrNew(S, made, key) == IF InPool(S.pool, key) THEN S ELSE PoolStore(made.st, key, made.ret)

Assemble(S, endpoints, writable, env) ==
    AssembleFrom(S, S.pool[EndpointsKey(endpoints)], endpoints, writable, env, 1)

_xapian_database(S, endpoints, writable, env) ==
    Assemble(PooledOrNew(S, NewComposite(S, endpoints, writable), EndpointsKey(endpoints)),
             endpoints, writable, env)

\* database._all_databases.index(subdatabase): the first position holding it.
ListIndex(list, x) == CHOOSE i \in 1..Len(list) : list[i] = x /\ \A j \in 1..(i - 1) : list[j] # x

\* Lines 126 to 129: every handle of the recovered list is attached.
RECURSIVE ReattachFrom(_, _, _)
ReattachFrom(S, database, n) ==
    IF n > Len(S.arrays[S.composites[database].arr].dbs) THEN S
    ELSE ReattachFrom(AttachIf(S, database, S.arrays[S.composites[database].arr].dbs[n]),
                      database, n + 1)

\* subdatabase.reopen() raises DatabaseOpeningError or NetworkError
ReopenFails(S, sub, env) == S.handles[sub].key \in env.reopenBad

\* The loop of xapian_reopen over database._all_databases, from the i-th element on.
RECURSIVE ReopenSlotsFrom(_, _, _, _)
RECURSIVE SlotRecreated(_, _, _, _, _, _)
\* A coordinator that writes the handle of the recipe to the first slot, whichever failed.
SlotRecreatedInFirstSlot(r, arr, subdatabase_number, database, env, i) ==
    IF r.exc # NoExc THEN r
    ELSE ReopenSlotsFrom([r.st EXCEPT !.arrays[arr].dbs[1] = r.ret], database, env, i + 1)

\* Line 139: the handle the recipe returned is written to the slot.
SlotRecreated(r, arr, subdatabase_number, database, env, i) ==
    IF r.exc # NoExc THEN r
    ELSE ReopenSlotsFrom([r.st EXCEPT !.arrays[arr].dbs[subdatabase_number] = r.ret],
                         database, env, i + 1)

\* Lines 136 to 138: the slot of the handle, its recipe, and the call of the recipe.
RecreateSlot(S, arr, subdatabase_number, database, env, i) ==
    IF S.arrays[arr].cfg[subdatabase_number] = NoConfig THEN Raise(S, "TypeError")
    ELSE SlotRecreated(_xapian_subdatabase(S, S.arrays[arr].cfg[subdatabase_number].db,
                                           S.arrays[arr].cfg[subdatabase_number].writable, env),
                       arr, subdatabase_number, database, env, i)

ReopenSlot(S, arr, dbs, database, env, i) ==
    IF dbs[i] = None THEN ReopenSlotsFrom(S, database, env, i + 1)
    ELSE IF ~ReopenFails(S, dbs[i], env)
         THEN ReopenSlotsFrom(Event(S, "reopen", dbs[i]), database, env, i + 1)
    ELSE RecreateSlot(Event(S, "reopen_failed", dbs[i]), arr, ListIndex(dbs, dbs[i]), database, env, i)

ReopenSlotsFrom(S, database, env, i) ==
    IF i > Len(S.arrays[S.composites[database].arr].dbs) THEN Return(S, database)
    ELSE ReopenSlot(S, S.composites[database].arr, S.arrays[S.composites[database].arr].dbs,
                    database, env, i)

\* Lines 122 to 129: the new composite is given the lists of the old one, and their handles.
Recover(r, old) ==
    IF r.exc # NoExc THEN r
    ELSE Return(ReattachFrom([r.st EXCEPT !.composites[r.ret].arr = old.arr,
                                          !.composites[r.ret].endpoints = old.endpoints],
                             r.ret, 1),
                r.ret)

\* Lines 112 to 119: the entry of the pool is deleted and the composite assembled again.
Rebuild(S, old, env) ==
    IF ~InPool(S.pool, EndpointsKey(old.endpoints)) THEN Raise(S, "KeyError")
    ELSE Recover(_xapian_database(PoolDelete(S, EndpointsKey(old.endpoints)),
                                  old.endpoints, old.writable, env),
                 old)

\* The except block of xapian_reopen: the full reopen.
FullReopen(S, database, env) == Rebuild(S, S.composites[database], env)

\* Lines 131 to 141.
ThenReopenSlots(first, env) ==
    IF first.exc # NoExc THEN first
    ELSE ReopenSlotsFrom(first.st, first.ret, env, 1)

\* Lines 108 to 129: database.reopen(), and the full reopen when it fails.
ReopenComposite(S, database, env) ==
    IF env.compBad THEN FullReopen(Event(S, "reopen_composite_failed", database), database, env)
    ELSE Return(Event(S, "reopen_composite", database), database)

xapian_reopen(S, database, env) ==
    ThenReopenSlots(ReopenComposite(Event(S, "xapian_reopen", database), database, env), env)

\* A xapian_database that reopens whatever the intent.
ReopenWhateverIntent(r, writable, env) ==
    IF r.exc # NoExc THEN r
    ELSE xapian_reopen(r.st, r.ret, env)

\* Lines 102 to 104.
ReopenIfReading(r, writable, env) ==
    IF r.exc # NoExc THEN r
    ELSE IF ~writable THEN xapian_reopen(r.st, r.ret, env)
    ELSE r

xapian_database(S, endpoints, writable, env) ==
    ReopenIfReading(_xapian_database(S, endpoints, writable, env), writable, env)

(***************************************************************************)
(* Strings are sequences of one-character strings, so that strip, lower    *)
(* and the match of KEY_RE are computed on the characters.  An optional    *)
(* value is <<>> (None) or <<v>>.                                          *)
(***************************************************************************)
Some(v) == <<v>>

NoneOpt == <<>>

UpperCase == <<"A", "B", "C", "D", "E", "F", "G", "H", "I", "J", "K", "L", "M",
               "N", "O", "P", "Q", "R", "S", "T", "U", "V", "W", "X", "Y", "Z">>

LowerCase == <<"a", "b", "c", "d", "e", "f", "g", "h", "i", "j", "k", "l", "m",
               "n", "o", "p", "q", "r", "s", "t", "u", "v", "w", "x", "y", "z">>

Digits == {"0", "1", "2", "3", "4", "5", "6", "7", "8", "9"}

LowerChar(c) ==
    IF \E i \in 1..Len(UpperCase) : UpperCase[i] = c
    THEN LowerCase[CHOOSE i \in 1..Len(UpperCase) : UpperCase[i] = c]
    ELSE c

\* name.lower()
lower(s) == [i \in 1..Len(s) |-> LowerChar(s[i])]

RECURSIVE lstrip(_)
lstrip(s) == IF s # <<>> /\ Head(s) = " " THEN lstrip(Tail(s)) ELSE s

RECURSIVE rstrip(_)
rstrip(s) == IF s # <<>> /\ s[Len(s)] = " " THEN rstrip(SubSeq(s, 1, Len(s) - 1)) ELSE s

\* A translator that leaves the spaces around a name.
stripNothing(s) == s

\* name.strip()
strip(s) == rstrip(lstrip(s))

\* KEY_RE.match(name): [_a-zA-Z][_a-zA-Z0-9]* matches at the start of the name;
\* the star may match no character, and nothing anchors the end.
KEY_RE_match(name) ==
    /\ name # <<>>
    /\ Head(name) \in SeqRange(LowerCase) \cup SeqRange(UpperCase) \cup {"_"}

\* int(md5(name).hexdigest(), 16) & 0xffffffff, written as its eight hexadecimal
\* digits: the last eight of the digest, for the names of the model.
Md5Low32(name) ==
    CASE name = <<"t">> -> "6b65649e"
      [] name = <<"t", "-">> -> "a6286f51"
      [] name = <<"k">> -> "e8759df3"
      [] name = <<"_">> -> "4ce60032"
      [] OTHER -> "unlisted"

\* A value is a string, [str |-> characters], or a number, [int |-> n].
\* isinstance(document_id, basestring)
IsString(value) == "str" \in DOMAIN value

\* serialise_value: the canonical form of a value; a number is not stored as its digits.
serialise_value(value) ==
    IF IsString(value) THEN value.str ELSE <<"#", ToString(value.int)>>

\* normalize: case folding
normalize(text) == lower(text)

(***************************************************************************)
(* The engine's document: the calls made on it, and what they leave.       *)
(***************************************************************************)
\* xapian.Document()
NewDocument == [values |-> <<>>, terms |-> {}, boolean_terms |-> {}, data |-> NoneOpt, ops |-> <<>>]

\* document.add_value(slot, value): a later value of a slot replaces the earlier one.
add_value(doc, slot, value) ==
    [doc EXCEPT !.values = (slot :> value) @@ @,
                !.ops = Append(@, [op |-> "add_value", slot |-> slot, value |-> value])]

\* document.add_boolean_term(document_id)
add_boolean_term(doc, term) ==
    [doc EXCEPT !.terms = @ \cup {term},
                !.boolean_terms = @ \cup {term},
                !.ops = Append(@, [op |-> "add_boolean_term", term |-> term])]

\* document.add_term(prefix + term, weight)
add_term(doc, term, weight) ==
    [doc EXCEPT !.terms = @ \cup {term},
                !.ops = Append(@, [op |-> "add_term", term |-> term, weight |-> weight])]

\* document.add_posting(prefix + term, position, weight)
add_posting(doc, term, position, weight) ==
    [doc EXCEPT !.terms = @ \cup {term},
                !.ops = Append(@, [op |-> "add_posting", term |-> term, position |-> position,
                                   weight |-> weight])]

\* The words of a text: the term generator splits it at the spaces.
RECURSIVE Words(_, _)
Words(text, word) ==
    IF text = <<>> THEN (IF word = <<>> THEN {} ELSE {word})
    ELSE IF Head(text) = " " THEN (IF word = <<>> THEN {} ELSE {word}) \cup Words(Tail(text), <<>>)
    ELSE Words(Tail(text), Append(word, Head(text)))

\* index_text(normalize(text), weight, prefix), of a term generator set up as the entry asks.
index_text(doc, text, weight, prefix, language, positions, spelling) ==
    [doc EXCEPT !.terms = @ \cup {prefix \o w : w \in Words(text, <<>>)},
                !.ops = Append(@, [op |-> IF positions THEN "index_text" ELSE "index_text_without_positions",
                                   text |-> text, weight |-> weight, prefix |-> prefix,
                                   stemmer |-> language, spelling |-> spelling])]

\* document.set_data(document_data)
set_data(doc, data) ==
    [doc EXCEPT !.data = Some(data), !.ops = Append(@, [op |-> "set_data", data |-> data])]

(***************************************************************************)
(* The translation of a document description (xapian_index, lines 150 to   *)
(* 211).  A description is a record of the eight fields of the tuple; its  *)
(* values are the (name, value) pairs in the order the dict yields them;   *)
(* an entry of terms or texts is a tuple of optional fields, or a bare     *)
(* string (a tuple of one field here).                                     *)
(***************************************************************************)
\* (list(entry) + [None] * n)[:n]
Pad(items, n) == SubSeq(items \o [i \in 1..n |-> NoneOpt], 1, n)

\* x if the field is None, else the field
OrDefault(field, x) == IF field = NoneOpt THEN x ELSE field[1]

\* The loop over document_values; a name that does not match is logged and left out.
RECURSIVE TranslateValues(_, _)
TranslateValues(t, pairs) ==
    IF pairs = <<>> THEN t
    ELSE LET name == lower(strip(Head(pairs)[1])) IN
         TranslateValues(
            IF KEY_RE_match(name)
            THEN [t EXCEPT !.doc = add_value(@, Md5Low32(lower(name)), serialise_value(Head(pairs)[2]))]
            ELSE [t EXCEPT !.warnings = Append(@, name)],
            Tail(pairs))

\* not term: None, an empty string or the number 0
Falsy(value) == IF IsString(value) THEN value.str = <<>> ELSE value.int = 0

\* The loop over document_terms.
RECURSIVE TranslateTerms(_, _)
TranslateTerms(doc, entries) ==
    IF entries = <<>> THEN doc
    ELSE LET e == Pad(Head(entries), 4)
             term == e[1]
             weight == OrDefault(e[2], 1)
             prefix == OrDefault(e[3], <<>>)
             position == e[4]
         IN TranslateTerms(
               IF term = NoneOpt \/ Falsy(term[1]) THEN doc
               ELSE IF position = NoneOpt
                    THEN add_term(doc, prefix \o normalize(serialise_value(term[1])), weight)
                    ELSE add_posting(doc, prefix \o normalize(serialise_value(term[1])), position[1], weight),
               Tail(entries))

\* The loop over document_texts.
RECURSIVE TranslateTexts(_, _, _)
TranslateTexts(doc, entries, document) ==
    IF entries = <<>> THEN doc
    ELSE LET e == Pad(Head(entries), 6)
             text == e[1]
             weight == OrDefault(e[2], 1)
             prefix == OrDefault(e[3], <<>>)
             language == OrDefault(e[4], document.default_language)
             spelling == OrDefault(e[5], document.default_spelling)
             positions == OrDefault(e[6], document.default_positions)
         IN TranslateTexts(
               IF text = NoneOpt \/ text[1] = <<>> THEN doc
               ELSE index_text(doc, normalize(text[1]), weight, prefix, language, positions, spelling),
               Tail(entries), document)

\* Lines 152 to 211: the engine document of a description, the names logged as ignored,
\* and the exception of add_boolean_term, which refuses an empty term.
Translate(document) ==
    LET t1 == TranslateValues([doc |-> NewDocument, warnings |-> <<>>, exc |-> NoExc], document.document_values)
        id == document.document_id
        d2 == IF IsString(id) THEN add_boolean_term(t1.doc, id.str) ELSE t1.doc
        d3 == TranslateTerms(d2, document.document_terms)
        d4 == TranslateTexts(d3, document.document_texts, document)
        d5 == IF document.document_data # <<>> THEN set_data(d4, document.document_data) ELSE d4
    IN IF IsString(id) /\ id.str = <<>> THEN [t1 EXCEPT !.exc = "InvalidArgumentError"]
       ELSE [t1 EXCEPT !.doc = d5]

(***************************************************************************)
(* The engine: the documents of a shard, written through a handle.         *)
(***************************************************************************)
\* What the shard keeps of a document.
Stored(doc) ==
    [values |-> doc.values, terms |-> doc.terms, boolean_terms |-> doc.boolean_terms, data |-> doc.data]

\* The documents indexed by a term.
Postings(shard, term) == {d \in DOMAIN shard.docs : term \in shard.docs[d].terms}

Min(set) == CHOOSE x \in set : \A y \in set : x <= y

Max(a, b) == IF a >= b THEN a ELSE b

Without(docs, gone) == [d \in DOMAIN docs \ gone |-> docs[d]]

\* WritableDatabase.replace_document(unique_term, document): the first document indexed
\* by the term is replaced and the others are deleted; with none, the document is added.
ReplaceByTerm(shard, term, doc) ==
    LET hit == Postings(shard, term)
        did == IF hit = {} THEN shard.lastdocid + 1 ELSE Min(hit)
    IN [st |-> [docs |-> (did :> Stored(doc)) @@ Without(shard.docs, hit),
                lastdocid |-> Max(shard.lastdocid, did)],
        ret |-> did]

\* WritableDatabase.replace_document(docid, document)
ReplaceByDocid(shard, did, doc) ==
    [st |-> [docs |-> (did :> Stored(doc)) @@ shard.docs, lastdocid |-> Max(shard.lastdocid, did)],
     ret |-> did]

\* subdatabase.replace_document(document_id, document); a read-only handle has no such method.
replace_document(S, sub, document_id, doc) ==
    LET key == S.handles[sub].key
        S1 == Event(S, "replace_document", sub)
        r == IF IsString(document_id) THEN ReplaceByTerm(S.shards[key], document_id.str, doc)
             ELSE ReplaceByDocid(S.shards[key], document_id.int, doc)
    IN IF ~S.handles[sub].writable THEN Raise(S, "AttributeError")
       ELSE IF ~IsString(document_id) /\ document_id.int = 0 THEN Raise(S1, "InvalidArgumentError")
       ELSE Return([S1 EXCEPT !.shards[key] = r.st], r.ret)

\* subdatabase.delete_document(document_id): by term every document indexed by it,
\* by number the document, which must exist.
delete_document(S, sub, document_id) ==
    LET key == S.handles[sub].key
        shard == S.shards[key]
        S1 == Event(S, "delete_document", sub)
    IN IF ~S.handles[sub].writable THEN Raise(S, "AttributeError")
       ELSE IF IsString(document_id)
            THEN Return([S1 EXCEPT !.shards[key].docs = Without(@, Postings(shard, document_id.str))], None)
       ELSE IF document_id.int = 0 THEN Raise(S1, "InvalidArgumentError")
       ELSE IF document_id.int \notin DOMAIN shard.docs THEN Raise(S1, "DocNotFoundError")
       ELSE Return([S1 EXCEPT !.shards[key].docs = Without(@, {document_id.int})], None)

\* subdatabase.commit()
commit_database(S, sub) ==
    IF ~S.handles[sub].writable THEN Raise(S, "AttributeError")
    ELSE Return(Event(S, "commit", sub), None)

(***************************************************************************)
(* The write path.                                                         *)
(***************************************************************************)
\* log.error("Database is None (db:%s)", db); return
DatabaseIsNone(S) == Return(Event(S, "log.error", None), None)

\* Line 221: return docid, a name that is bound only when the replace returned.
ReturnDocid(com, docid, caught, sub) ==
    IF com.exc # NoExc THEN com
    ELSE IF caught THEN Raise(com.st, "UnboundLocalError")
    ELSE Return(Event(com.st, "return_docid", sub), docid)

\* A xapian_index that returns docid without the commit.
ReturnWithoutCommit(S, docid, caught, sub, commit) ==
    ReturnDocid(Return(S, None), docid, caught, sub)

\* Lines 218 to 221: commit when asked, then return docid.
CommitAndReturn(S, docid, caught, sub, commit) ==
    ReturnDocid(IF commit THEN commit_database(S, sub) ELSE Return(S, None), docid, caught, sub)

\* Lines 213 to 216: an argument error of the replace is logged.
Replaced(rep, sub, commit) ==
    IF rep.exc = "InvalidArgumentError"
    THEN CommitAndReturn(Event(rep.st, "log.error", sub), None, TRUE, sub, commit)
    ELSE IF rep.exc # NoExc THEN rep
    ELSE CommitAndReturn(rep.st, rep.ret, FALSE, sub, commit)

RECURSIVE LogWarnings(_, _)
LogWarnings(S, names) ==
    IF names = <<>> THEN S ELSE LogWarnings(Event(S, "log.warning", None), Tail(names))

\* Lines 150 to 221, on the handle resolved.
IndexInto(S, sub, document, t, commit) ==
    IF t.exc # NoExc THEN Raise(S, t.exc)
    ELSE Replaced(replace_document([S EXCEPT !.doc = t.doc], sub, document.document_id, t.doc),
                  sub, commit)

Resolved(r, document, t, commit) ==
    IF r.exc # NoExc THEN r
    ELSE IF r.ret = None THEN DatabaseIsNone(r.st)
    ELSE IndexInto(LogWarnings(r.st, t.warnings), r.ret, document, t, commit)

xapian_index(S, db, document, commit, env) ==
    Resolved(_xapian_subdatabase(S, db, TRUE, env), document, Translate(document), commit)

\* Lines 230 to 233.
Deleted(del, sub, commit) ==
    IF del.exc # NoExc THEN del
    ELSE IF commit THEN commit_database(del.st, sub)
    ELSE del

DeleteFrom(r, document_id, commit) ==
    IF r.exc # NoExc THEN r
    ELSE IF r.ret = None THEN DatabaseIsNone(r.st)
    ELSE Deleted(delete_document(r.st, r.ret, document_id), r.ret, commit)

xapian_delete(S, db, document_id, commit, env) ==
    DeleteFrom(_xapian_subdatabase(S, db, TRUE, env), document_id, commit)

CommitOn(r) ==
    IF r.exc # NoExc THEN r
    ELSE IF r.ret = None THEN DatabaseIsNone(r.st)
    ELSE commit_database(r.st, r.ret)

xapian_commit(S, db, env) == CommitOn(_xapian_subdatabase(S, db, TRUE, env))

(***************************************************************************)
(* The state machine: one action per call of an entry point.               *)
(***************************************************************************)
Heap ==
    [pool |-> databases_pool, handles |-> handles, composites |-> composites, arrays |-> arrays,
     created |-> created, shards |-> shards, events |-> <<>>, doc |-> NewDocument]

\* The documents a returned xapian_index has written, by shard and document id: the last of each.
Indexed(op, arg, r) ==
    IF op = "xapian_index" /\ r.exc = NoExc /\ r.ret # None
    THEN (<<SubKey(arg.db), arg.document.document_id>> :> Stored(r.st.doc)) @@ indexed
    ELSE indexed

\* The heap after a call, and the record of the call.
Finish(op, arg, flag, r) ==
    /\ Len(r.st.composites) <= MaxComposites
    /\ \A k \in SubKeys : r.st.shards[k].lastdocid <= MaxDocId
    /\ databases_pool' = r.st.pool
    /\ handles' = r.st.handles
    /\ composites' = r.st.composites
    /\ arrays' = r.st.arrays
    /\ created' = r.st.created
    /\ shards' = r.st.shards
    /\ indexed' = Indexed(op, arg, r)
    /\ last' = [op |-> op, arg |-> arg, flag |-> flag, ret |-> r.ret, exc |-> r.exc,
                events |-> r.st.events, doc |-> r.st.doc]
    /\ UNCHANGED threads

KeysOf(endpoints) == {SubKey(endpoints[i]) : i \in 1..Len(endpoints)}

\* The shards among these that a call would have to open: the pool holds no handle of them.
Openable(keys) == keys \ DOMAIN databases_pool

CallDatabase ==
    \E endpoints \in EndpointSets, writable \in BOOLEAN :
        \E env \in Envs(Openable(KeysOf(endpoints)),
                        IF writable THEN {} ELSE KeysOf(endpoints),
                        IF writable THEN {FALSE} ELSE BOOLEAN) :
            Finish("xapian_database", endpoints, writable, xapian_database(Heap, endpoints, writable, env))

\* A composite a caller can hold: xapian_database and xapian_reopen return a composite
\* only when every slot of it has a handle.
Held(database) ==
    \A i \in 1..Len(arrays[composites[database].arr].dbs) :
        arrays[composites[database].arr].dbs[i] # None

CallReopen ==
    \E database \in {c \in 1..Len(composites) : Held(c)} :
        \E env \in Envs(Openable(KeysOf(composites[database].endpoints)),
                        KeysOf(composites[database].endpoints), BOOLEAN) :
            Finish("xapian_reopen", database, FALSE, xapian_reopen(Heap, database, env))

CallIndex(dbs, documents) ==
    \E db \in dbs, document \in documents, commit \in BOOLEAN :
        \E env \in Envs(Openable({SubKey(db)}), {}, {FALSE}) :
            Finish("xapian_index", [db |-> db, document |-> document], commit,
                   xapian_index(Heap, db, document, commit, env))

CallDelete(ids) ==
    \E db \in Endpoints, document_id \in ids, commit \in BOOLEAN :
        \E env \in Envs(Openable({SubKey(db)}), {}, {FALSE}) :
            Finish("xapian_delete", [db |-> db, document_id |-> document_id], commit,
                   xapian_delete(Heap, db, document_id, commit, env))

CallCommit ==
    \E db \in Endpoints :
        \E env \in Envs(Openable({SubKey(db)}), {}, {FALSE}) :
            Finish("xapian_commit", [db |-> db], TRUE, xapian_commit(Heap, db, env))

(***************************************************************************)
(* Document descriptions.                                                  *)
(***************************************************************************)
Str(chars) == [str |-> chars]

Num(n) == [int |-> n]

Description(document_id, document_values, document_terms, document_texts, document_data) ==
    [document_id |-> document_id, document_values |-> document_values,
     document_terms |-> document_terms, document_texts |-> document_texts,
     document_data |-> document_data, default_language |-> <<>>,
     default_spelling |-> FALSE, default_positions |-> TRUE]

\* The document of the pool's specification: a numbered document without fields.
PoolDocuments == {Description(Num(1), <<>>, <<>>, <<>>, <<>>)}

PoolDocumentIds == {Num(1)}

\* The documents of the write path's specification.  Their ids are the strings x and y
\* and the numbers 0 and 1; the first carries the bare term Y, an upper-case name with
\* a space before it and a number as value; the third a name that is no identifier,
\* one that starts with a digit, a prefixed term with position 0, an empty term, a
\* text and a payload.
IndexDocuments ==
    { Description(Str(<<"x">>), << <<<<" ", "T">>, Num(1)>> >>, << <<Some(Str(<<"Y">>))>> >>, <<>>, <<>>),
      Description(Str(<<"x">>), << <<<<"t">>, Num(2)>> >>, <<>>, <<>>, <<>>),
      Description(Str(<<"y">>),
                  << <<<<"t", "-">>, Str(<<"v">>)>>, <<<<"1">>, Num(1)>> >>,
                  << <<Some(Str(<<"k">>)), NoneOpt, Some(<<"P">>), Some(0)>>, <<Some(Str(<<>>))>> >>,
                  << <<Some(<<"A", " ", "b">>)>> >>,
                  <<"d">>),
      Description(Num(0), <<>>, <<>>, <<>>, <<>>),
      Description(Num(1), << <<<<"k">>, Num(1)>> >>, <<>>, <<>>, <<>>) }

\* The names of values of the translator's specification: t and k in both cases and with
\* spaces around them, the underscore, a name of spaces, a name that starts with a
\* digit, and a name that starts as an identifier and goes on with a hyphen.
ValueNames ==
    { <<"t">>, <<"T">>, <<" ", "t">>, <<"T", " ">>, <<"k">>, <<" ", "K", " ">>,
      <<"_">>, <<" ">>, <<"1">>, <<"t", "-">> }

\* document_values is a dict: its names differ, and it yields them in either order.
ValueDicts ==
    { << <<n, Num(1)>> >> : n \in ValueNames }
    \cup { << <<p[1], Num(1)>>, <<p[2], Num(2)>> >> : p \in {q \in ValueNames \X ValueNames : q[1] # q[2]} }

\* The fields of a term entry: no text, an empty one, a word, the numbers 0 and 5; a
\* weight or none; a prefix or none; no position, position 0, position 3.
TermTexts == {NoneOpt, Some(Str(<<>>)), Some(Str(<<"Y">>)), Some(Num(0)), Some(Num(5))}

TermEntries ==
    { <<text>> : text \in TermTexts \ {NoneOpt} }
    \cup { <<text, weight, prefix, position>> :
              text \in TermTexts, weight \in {NoneOpt, Some(2)},
              prefix \in {NoneOpt, Some(<<"P">>)}, position \in {NoneOpt, Some(0), Some(3)} }

\* Lists of one term entry, and of two.
TermLists ==
    { <<e>> : e \in TermEntries }
    \cup { <<e, f>> : e \in { <<Some(Str(<<"Y">>))>>, <<Some(Str(<<>>))>> },
                      f \in { <<Some(Str(<<"k">>)), NoneOpt, NoneOpt, Some(0)>>, <<Some(Num(0))>> } }

\* The documents of the translator's specification, all of id x: the dicts of values,
\* the lists of terms, and a document with a name that is no identifier among a
\* value, a term, a text and a payload.
TranslateDocuments ==
    { Description(Str(<<"x">>), values, <<>>, <<>>, <<>>) : values \in ValueDicts }
    \cup { Description(Str(<<"x">>), <<>>, terms, <<>>, <<>>) : terms \in TermLists }
    \cup { Description(Str(<<"x">>),
                       << <<name, Str(<<"v">>)>>, <<<<"k">>, Num(1)>> >>,
                       << <<Some(Str(<<"k">>)), NoneOpt, Some(<<"P">>), Some(0)>> >>,
                       << <<Some(<<"A", " ", "b">>)>> >>,
                       <<"d">>) : name \in {<<"1">>, <<"t", "-">>} }

Threads == 1..NumThreads

\* A thread that is in no call.
IdleThread == [pc |-> "idle", db |-> PathA, writable |-> FALSE, database |-> None, exc |-> NoExc]

Init ==
    /\ databases_pool = <<>>
    /\ handles = <<>>
    /\ composites = <<>>
    /\ arrays = <<>>
    /\ created \in SUBSET {PathA}
    /\ shards = [k \in SubKeys |-> [docs |-> <<>>, lastdocid |-> 0]]
    /\ indexed = <<>>
    /\ last = [op |-> "init", arg |-> None, flag |-> FALSE, ret |-> None, exc |-> NoExc,
               events |-> <<>>, doc |-> NewDocument]
    /\ threads = [t \in Threads |-> IdleThread]

Next ==
    \/ CallDatabase
    \/ CallReopen
    \/ CallIndex(Endpoints, PoolDocuments)
    \/ CallDelete(PoolDocumentIds)
    \/ CallCommit

Spec == Init /\ [][Next]_vars

(***************************************************************************)
(* Concurrent callers.  The module takes no lock, so a thread resolving a  *)
(* shard can be preempted between the membership test of the pool, the     *)
(* engine's open and the store into the pool: _xapian_subdatabase is three *)
(* steps of a thread, whose local variables are its record in `threads'.   *)
(***************************************************************************)
\* A thread calls _xapian_subdatabase(databases_pool, db, writable).
Enter(t) ==
    /\ threads[t].pc = "idle"
    /\ \E db \in Endpoints, writable \in BOOLEAN :
           threads' = [threads EXCEPT ![t] = [pc |-> "check", db |-> db, writable |-> writable,
                                              database |-> None, exc |-> NoExc]]
    /\ UNCHANGED <<databases_pool, handles, composites, arrays, created, shards, indexed, last>>

\* Lines 50 and 51, 74 and 75: the handle of the pool is returned when the key is there.
Check(t) ==
    /\ threads[t].pc = "check"
    /\ threads' = [threads EXCEPT ![t] =
                      IF InPool(databases_pool, SubKey(threads[t].db))
                      THEN [threads[t] EXCEPT !.pc = "returned",
                                              !.database = databases_pool[SubKey(threads[t].db)]]
                      ELSE [threads[t] EXCEPT !.pc = "open"]]
    /\ UNCHANGED <<databases_pool, handles, composites, arrays, created, shards, indexed, last>>

\* What the open of a thread's shard gives, before the store: the store of StoreOpened
\* and StoreConnected is the thread's next step.
Opened(S, db, writable, env) ==
    IF IsPath(db) THEN StoreOpened(OpenLocalTry(S, db, writable, env), PathKey(db))
    ELSE StoreConnected(IF writable THEN xapian_remote_open_writable(S, db.host, db.port, db.timeout, env)
                        ELSE xapian_remote_open(S, db.host, db.port, db.timeout, env),
                        HostPortKey(db.host, db.port))

OpenStep(t, o) ==
    /\ handles' = o.st.handles
    /\ created' = o.st.created
    /\ threads' = [threads EXCEPT ![t] = [threads[t] EXCEPT
                                              !.pc = IF o.exc = NoExc THEN "store" ELSE "raised",
                                              !.database = o.ret, !.exc = o.exc]]

\* Lines 52 to 67, 76 to 82: the engine opens the shard, or the call raises.
Open(t) ==
    /\ threads[t].pc = "open"
    /\ \E env \in Envs({SubKey(threads[t].db)}, {}, {FALSE}) :
           OpenStep(t, Opened(Heap, threads[t].db, threads[t].writable, env))
    /\ UNCHANGED <<databases_pool, composites, arrays, shards, indexed, last>>

\* Lines 68 and 69, 83 and 84: the handle is stored in the pool and returned.
Store(t) ==
    /\ threads[t].pc = "store"
    /\ databases_pool' = PoolStore(Heap, SubKey(threads[t].db), threads[t].database).pool
    /\ threads' = [threads EXCEPT ![t] = [threads[t] EXCEPT !.pc = "returned"]]
    /\ UNCHANGED <<handles, composites, arrays, created, shards, indexed, last>>

\* The caller has its handle or its exception, and may call again.
Leave(t) ==
    /\ threads[t].pc \in {"returned", "raised"}
    /\ threads' = [threads EXCEPT ![t] = IdleThread]
    /\ UNCHANGED <<databases_pool, handles, composites, arrays, created, shards, indexed, last>>

NextConc == \E t \in Threads : Enter(t) \/ Check(t) \/ Open(t) \/ Store(t) \/ Leave(t)

SpecConc == Init /\ [][NextConc]_vars

\* The write path alone: documents indexed into the local shard.
NextIndex == CallIndex({PathA}, IndexDocuments)

SpecIndex == Init /\ [][NextIndex]_vars

\* The translator alone: xapian_index of the translator's documents into the local shard.
NextTranslate == CallIndex({PathA}, TranslateDocuments)

SpecTranslate == Init /\ [][NextTranslate]_vars

(***************************************************************************)
(* What the record of the last call shows.                                 *)
(***************************************************************************)
\* The positions of the trace holding one of these events.
EventsAt(trace, ops) == {i \in 1..Len(trace) : trace[i].op \in ops}

\* The handles or composites these events of the trace were made on.
TargetsOf(trace, ops) == {trace[i].on : i \in EventsAt(trace, ops)}

\* The handles of a shard that are open.
LiveHandles(key) == {h \in 1..Len(handles) : handles[h].key = key /\ ~handles[h].closed}

WriteOps == {"xapian_index", "xapian_delete", "xapian_commit"}

ReopenEvents == {"xapian_reopen", "reopen_composite", "reopen_composite_failed", "reopen", "reopen_failed"}

\* The slots of a composite.
SlotsOf(database) == arrays[composites[database].arr].dbs

(***************************************************************************)
(* The pool of shard handles.                                              *)
(***************************************************************************)
\* C1: without eviction, every successful resolution of a sub-shard key returns the one
\* handle the pool holds for it, and the open of a key has succeeded exactly once for a
\* key the pool holds (never for a key it does not hold): the key has one open handle,
\* and every handle a call resolved and every handle in a slot of a composite is the
\* pool's handle of its key.  The writable handle that lines 58 to 60 open to create a
\* missing index is closed within the same open.
C1_OneHandlePerKey ==
    \A key \in SubKeys :
        /\ Cardinality(LiveHandles(key)) = IF key \in DOMAIN databases_pool THEN 1 ELSE 0
        /\ \A h \in TargetsOf(last.events, {"resolved"}) :
               handles[h].key = key => key \in DOMAIN databases_pool /\ databases_pool[key] = h
        /\ \A a \in 1..Len(arrays) : \A i \in 1..Len(arrays[a].dbs) :
               (arrays[a].dbs[i] # None /\ handles[arrays[a].dbs[i]].key = key)
                   => key \in DOMAIN databases_pool /\ databases_pool[key] = arrays[a].dbs[i]

\* A write call has resolved a handle that a slot of a composite already held.
C1_Witness ==
    /\ last.op \in WriteOps
    /\ \E h \in TargetsOf(last.events, {"resolved"}) :
           \E a \in 1..Len(arrays) : \E i \in 1..Len(arrays[a].dbs) : arrays[a].dbs[i] = h

(***************************************************************************)
(* The reopen coordinator.                                                 *)
(***************************************************************************)
\* The slots, before the step, of the composite the step reopens.
SlotsBefore ==
    IF last'.op = "xapian_reopen" THEN SlotsOf(last'.arg)
    ELSE IF EndpointsKey(last'.arg) \in DOMAIN databases_pool
         THEN SlotsOf(databases_pool[EndpointsKey(last'.arg)])
    ELSE <<>>

\* The step is a reopen that returned a composite after a reopen() failed.
RecoveringStep ==
    /\ last'.op \in {"xapian_reopen", "xapian_database"}
    /\ last'.exc = NoExc
    /\ EventsAt(last'.events, {"reopen_failed", "reopen_composite_failed"}) # {}

\* C3: when xapian_reopen returns a composite after a reopen() failed, on the full
\* path or on the per-slot path, every slot that held a handle before the call, other
\* than the slots of the handles whose reopen() failed, holds the same handle after it.
C3_OtherSlotsKeepTheirHandle ==
    [][RecoveringStep =>
          \A i \in 1..Len(SlotsBefore) :
              (SlotsBefore[i] # None /\ SlotsBefore[i] \notin TargetsOf(last'.events, {"reopen_failed"}))
                  => arrays'[composites'[last'.ret].arr].dbs[i] = SlotsBefore[i]]_vars

\* A full reopen in which the reopen() of one handle failed too has returned a
\* composite holding another handle.
C3_Witness ==
    /\ last.op = "xapian_reopen"
    /\ last.exc = NoExc
    /\ EventsAt(last.events, {"reopen_composite_failed"}) # {}
    /\ EventsAt(last.events, {"reopen_failed"}) # {}
    /\ \E i \in 1..Len(SlotsOf(last.ret)) :
           /\ SlotsOf(last.ret)[i] # None
           /\ SlotsOf(last.ret)[i] \notin TargetsOf(last.events, {"reopen_failed"})

\* C4: after xapian_reopen has handled the failed reopen() of a slot's handle, the
\* slot holds a fresh handle: the handle whose reopen() failed is in no slot of the
\* composite returned.
C4_FailedSlotHoldsFreshHandle ==
    (last.op \in {"xapian_reopen", "xapian_database"} /\ last.exc = NoExc)
        => \A h \in TargetsOf(last.events, {"reopen_failed"}) : h \notin SeqRange(SlotsOf(last.ret))

\* C10: a xapian_database call with read intent that returns has run xapian_reopen,
\* which has called reopen() on the composite; a call with write intent and the calls
\* of index, delete and commit have run no reopen at all.
C10_ReopenOnlyForReads ==
    /\ (last.op = "xapian_database" /\ ~last.flag /\ last.exc = NoExc)
           => /\ EventsAt(last.events, {"xapian_reopen"}) # {}
              /\ EventsAt(last.events, {"reopen_composite", "reopen_composite_failed"}) # {}
    /\ (last.op = "xapian_database" /\ last.flag) => EventsAt(last.events, ReopenEvents) = {}
    /\ last.op \in WriteOps => EventsAt(last.events, ReopenEvents) = {}

\* A xapian_database call with read intent has returned a composite with a handle in a slot.
C10_Witness ==
    /\ last.op = "xapian_database"
    /\ ~last.flag
    /\ last.exc = NoExc
    /\ \E i \in 1..Len(SlotsOf(last.ret)) : SlotsOf(last.ret)[i] # None

(***************************************************************************)
(* The write path.                                                         *)
(***************************************************************************)
\* C5: when the open or the connect of the target shard fails, xapian_index and
\* xapian_delete log the failure and return without raising, and the pool holds no
\* entry for the key of the shard.
C5_UnavailableShardIsSkipped ==
    (last.op \in {"xapian_index", "xapian_delete"} /\ EventsAt(last.events, {"open_failed"}) # {})
        => /\ last.exc = NoExc
           /\ EventsAt(last.events, {"log.error"}) # {}
           /\ SubKey(last.arg.db) \notin DOMAIN databases_pool

\* C6: the handle that xapian_index, xapian_delete and xapian_commit resolve, and call
\* replace, delete and commit on, is a writable handle of one shard.
C6_WritesGoToWritableHandle ==
    last.op \in WriteOps
        => \A h \in TargetsOf(last.events, {"resolved"}) :
               h \in 1..Len(handles) /\ handles[h].writable

\* The documents of a shard that carry the id as their boolean term.
DocsWithId(key, document_id) ==
    {d \in DOMAIN shards[key].docs : document_id.str \in shards[key].docs[d].boolean_terms}

\* C7: after xapian_index calls with textual ids only, for every id that a call has
\* written to a shard, the shard holds exactly one document with that id, and it is the
\* document of the last such call.
C7_OneDocumentPerIdHoldingLatest ==
    (\A p \in DOMAIN indexed : IsString(p[2])) =>
        \A p \in DOMAIN indexed :
            \E d \in DOMAIN shards[p[1]].docs :
                /\ DocsWithId(p[1], p[2]) = {d}
                /\ shards[p[1]].docs[d] = indexed[p]

\* C8: when the replace raises an argument error, which xapian_index logs, the call
\* returns normally: no exception escapes it.
C8_ArgumentErrorIsOnlyLogged ==
    (last.op = "xapian_index" /\ \E i \in EventsAt(last.events, {"log.error"}) : last.events[i].on # None)
        => last.exc = NoExc

\* The replace, commit and return events of the last call, in order.
WriteTrace == SelectSeq(last.events, LAMBDA e : e.op \in {"replace_document", "commit", "return_docid"})

\* C9: a xapian_index call with commit set that returns an id has made exactly a
\* replace, then a commit, then the return, all on the handle it resolved; any commit
\* the call makes comes right after its replace on the same handle, and only with
\* commit set; the return of the id is the last event.
C9_ReplaceCommitReturn ==
    last.op = "xapian_index" =>
        /\ (last.flag /\ last.exc = NoExc /\ last.ret # None) =>
               \E h \in TargetsOf(last.events, {"resolved"}) :
                   WriteTrace = << [op |-> "replace_document", on |-> h],
                                   [op |-> "commit", on |-> h],
                                   [op |-> "return_docid", on |-> h] >>
        /\ \A i \in 1..Len(WriteTrace) :
               WriteTrace[i].op = "commit" =>
                   /\ last.flag
                   /\ i > 1
                   /\ WriteTrace[i - 1] = [op |-> "replace_document", on |-> WriteTrace[i].on]
        /\ \A i \in 1..Len(WriteTrace) : WriteTrace[i].op = "return_docid" => i = Len(WriteTrace)

\* A xapian_index call with commit set has replaced a document that was there and
\* returned its id.
C9_Witness ==
    /\ last.op = "xapian_index"
    /\ last.flag
    /\ last.exc = NoExc
    /\ last.ret # None
    /\ Len(WriteTrace) = 3

(***************************************************************************)
(* Concurrent callers of the pool.                                         *)
(***************************************************************************)
\* C2: with callers resolving the same key at the same time, the engine opens at most
\* one handle for the key, and every caller that has been returned a handle for the
\* key has the handle the pool holds for it.
C2_OneHandlePerKeyForConcurrentCallers ==
    \A key \in SubKeys :
        /\ Cardinality(LiveHandles(key)) <= 1
        /\ \A t \in Threads :
               (threads[t].pc = "returned" /\ SubKey(threads[t].db) = key)
                   => threads[t].database = databases_pool[key]

(***************************************************************************)
(* The document translator.                                                *)
(***************************************************************************)
\* A name without the spaces around it.
Trimmed(name) ==
    IF \A i \in 1..Len(name) : name[i] = " " THEN <<>>
    ELSE SubSeq(name, Min({i \in 1..Len(name) : name[i] # " "}),
                CHOOSE i \in 1..Len(name) : name[i] # " " /\ \A j \in (i + 1)..Len(name) : name[j] = " ")

\* The same character, or the two cases of a letter.
SameLetter(c, d) == c = d \/ \E i \in 1..Len(UpperCase) : {c, d} = {UpperCase[i], LowerCase[i]}

\* Two names that differ only by the case of letters and by the spaces around them.
DifferByCaseAndSpaceOnly(a, b) ==
    /\ Len(Trimmed(a)) = Len(Trimmed(b))
    /\ \A i \in 1..Len(Trimmed(a)) : SameLetter(Trimmed(a)[i], Trimmed(b)[i])

\* The whole name matches [A-Za-z_][A-Za-z0-9_]*.
IsIdentifier(name) ==
    /\ name # <<>>
    /\ name[1] \in SeqRange(LowerCase) \cup SeqRange(UpperCase) \cup {"_"}
    /\ \A i \in 1..Len(name) : name[i] \in SeqRange(LowerCase) \cup SeqRange(UpperCase) \cup Digits \cup {"_"}

\* The add_value calls the last xapian_index made on its document, in order.
ValueOps == SelectSeq(last.doc.ops, LAMBDA o : o.op = "add_value")

\* The last call is a xapian_index that replaced the document.
IndexReturned == last.op = "xapian_index" /\ last.exc = NoExc /\ last.ret # None

\* C11: when the two value names of a document differ only by case and by the spaces
\* around them, xapian_index computes one slot for both: either both are left out, or
\* both add_value calls name the same slot and the document keeps, in that one slot,
\* the value of the second.
C11_SameSlotForCaseAndSpaceVariants ==
    (/\ IndexReturned
     /\ Len(last.arg.document.document_values) = 2
     /\ DifferByCaseAndSpaceOnly(last.arg.document.document_values[1][1],
                                 last.arg.document.document_values[2][1]))
        => \/ ValueOps = <<>>
           \/ /\ Len(ValueOps) = 2
              /\ ValueOps[1].slot = ValueOps[2].slot
              /\ last.doc.values = (ValueOps[2].slot :> ValueOps[2].value)

\* A document with the names " t" and "T", in this order, has been indexed, and both
\* values were added.
C11_Witness ==
    /\ IndexReturned
    /\ Len(last.arg.document.document_values) = 2
    /\ last.arg.document.document_values[1][1] = <<" ", "t">>
    /\ last.arg.document.document_values[2][1] = <<"T">>
    /\ Len(ValueOps) = 2

\* The value names of the last document whose trimmed, lower-cased form is an identifier.
IdentifierValues ==
    SelectSeq(last.arg.document.document_values, LAMBDA p : IsIdentifier(lower(strip(p[1]))))

\* The calls the last xapian_index made on its document, those of the values left out.
OtherOps(ops) == SelectSeq(ops, LAMBDA o : o.op # "add_value")

\* C12: xapian_index stores a value if and only if its trimmed, lower-cased name is an
\* identifier as a whole: there is one add_value per such name, in its slot, one
\* warning per other name, the call does not fail for it, and the terms, the texts
\* and the payload are indexed as they are without the values.
C12_ValueStoredIffNameIsIdentifier ==
    IndexReturned =>
        /\ Len(ValueOps) = Len(IdentifierValues)
        /\ \A i \in 1..Len(ValueOps) :
               i <= Len(IdentifierValues)
                   => ValueOps[i].slot = Md5Low32(lower(strip(IdentifierValues[i][1])))
        /\ Cardinality(EventsAt(last.events, {"log.warning"}))
               = Len(last.arg.document.document_values) - Len(IdentifierValues)
        /\ OtherOps(last.doc.ops)
               = OtherOps(Translate([last.arg.document EXCEPT !.document_values = <<>>]).doc.ops)

\* The field of a term entry, None when the entry is shorter.
EntryField(entry, i) == IF i <= Len(entry) THEN entry[i] ELSE NoneOpt

\* The term entries of the last document whose text is there and is not the empty string.
EntriesWithText ==
    SelectSeq(last.arg.document.document_terms,
              LAMBDA e : EntryField(e, 1) # NoneOpt /\ EntryField(e, 1)[1] # Str(<<>>))

\* The add_term and add_posting calls the last xapian_index made on its document.
TermOps == SelectSeq(last.doc.ops, LAMBDA o : o.op \in {"add_term", "add_posting"})

\* The call is the one the entry asks for: plain without a position, positional with
\* one, with the weight and the prefix of the entry or 1 and the empty prefix.
TermOpOf(o, entry) ==
    /\ o.op = IF EntryField(entry, 4) = NoneOpt THEN "add_term" ELSE "add_posting"
    /\ o.weight = OrDefault(EntryField(entry, 2), 1)
    /\ SubSeq(o.term, 1, Len(OrDefault(EntryField(entry, 3), <<>>))) = OrDefault(EntryField(entry, 3), <<>>)
    /\ EntryField(entry, 4) # NoneOpt => o.position = EntryField(entry, 4)[1]

\* C18: xapian_index makes no call for a term entry whose text is empty, and exactly one
\* for every other entry, in order: add_term when the entry has no position,
\* add_posting when it has one, position 0 included, with weight 1 and prefix '' when
\* the entry has none.
C18_OneOperationPerTermWithText ==
    IndexReturned =>
        /\ Len(TermOps) = Len(EntriesWithText)
        /\ \A i \in 1..Len(TermOps) :
               i <= Len(EntriesWithText) => TermOpOf(TermOps[i], EntriesWithText[i])

(***************************************************************************)
(* Composite assembly and the full reopen.                                 *)
(***************************************************************************)
\* The step is a xapian_database call with write intent, which is _xapian_database
\* alone, for endpoints whose composite the pool holds.
AssemblyStep ==
    /\ last'.op = "xapian_database"
    /\ last'.flag
    /\ EndpointsKey(last'.arg) \in DOMAIN databases_pool

\* The composite of the pool for the endpoints of the step, before the step.
Pooled == databases_pool[EndpointsKey(last'.arg)]

\* The slots of the pooled composite that are empty before the step.
EmptyBefore == {i \in 1..Len(SlotsOf(Pooled)) : SlotsOf(Pooled)[i] = None}

\* The handles the step has put into empty slots, in the order of the slots.
RECURSIVE FilledFrom(_)
FilledFrom(i) ==
    IF i > Len(SlotsOf(Pooled)) THEN <<>>
    ELSE (IF i \in EmptyBefore /\ arrays'[composites'[Pooled].arr].dbs[i] # None
          THEN <<arrays'[composites'[Pooled].arr].dbs[i]>> ELSE <<>>) \o FilledFrom(i + 1)

\* C13: _xapian_database for endpoints whose composite is in the pool returns that
\* composite and leaves it in the pool; every slot that holds a handle keeps the handle
\* and its recipe; the opener is called only for empty slots, at most once for each and
\* for their shards; and the only handles attached are those put into empty slots.
C13_AssemblyIsIncremental ==
    [][AssemblyStep =>
          /\ last'.exc = NoExc => last'.ret = Pooled
          /\ databases_pool'[EndpointsKey(last'.arg)] = Pooled
          /\ \A i \in 1..Len(SlotsOf(Pooled)) :
                 i \notin EmptyBefore =>
                     /\ arrays'[composites'[Pooled].arr].dbs[i] = SlotsOf(Pooled)[i]
                     /\ arrays'[composites'[Pooled].arr].cfg[i] = arrays[composites[Pooled].arr].cfg[i]
          /\ Cardinality(EventsAt(last'.events, {"resolved", "open_failed"})) <= Cardinality(EmptyBefore)
          /\ \A h \in TargetsOf(last'.events, {"resolved"}) :
                 \E i \in EmptyBefore : handles'[h].key = SubKey(last'.arg[i])
          /\ composites'[Pooled].attached = composites[Pooled].attached \o FilledFrom(1)]_vars

\* A xapian_database call with write intent has returned a composite of two handles
\* after calling the opener once: the other slot was filled by an assembly that aborted.
C13_Witness ==
    /\ last.op = "xapian_database"
    /\ last.flag
    /\ last.exc = NoExc
    /\ Cardinality(EventsAt(last.events, {"resolved"})) = 1
    /\ \A i \in 1..Len(SlotsOf(last.ret)) : SlotsOf(last.ret)[i] # None
    /\ Len(composites[last.ret].attached) = 2

\* C14: of every composite, the list of handles, the list of recipes and the endpoints
\* have one length, and a slot that holds a handle has a recipe, that of the endpoint
\* at its index.
C14_SlotsRecipesEndpointsAgree ==
    \A c \in 1..Len(composites) :
        /\ Len(arrays[composites[c].arr].dbs) = Len(composites[c].endpoints)
        /\ Len(arrays[composites[c].arr].cfg) = Len(composites[c].endpoints)
        /\ \A i \in 1..Len(composites[c].endpoints) :
               arrays[composites[c].arr].dbs[i] # None =>
                   /\ arrays[composites[c].arr].cfg[i] # NoConfig
                   /\ arrays[composites[c].arr].cfg[i].db = composites[c].endpoints[i]

\* A xapian_database call has returned a second composite, which has the lists of the
\* first, from a full reopen in which the reopen() of a handle failed too.
C14_Witness ==
    /\ Len(composites) = 2
    /\ composites[1].arr = composites[2].arr
    /\ last.op = "xapian_database"
    /\ last.exc = NoExc
    /\ EventsAt(last.events, {"reopen_composite_failed"}) # {}
    /\ EventsAt(last.events, {"reopen_failed"}) # {}

\* The last call returned a composite to its caller.
CompositeReturned == last.op \in {"xapian_database", "xapian_reopen"} /\ last.exc = NoExc

\* The handles in the slots of a composite.
Populated(database) == SeqRange(SlotsOf(database)) \ {None}

\* C15: in a composite that xapian_database or xapian_reopen returns, the handles of
\* the aggregated view are the handles of the populated slots: every one of these is
\* attached, and nothing else is.
C15_ViewAgreesWithSlots ==
    CompositeReturned => SeqRange(composites[last.ret].attached) = Populated(last.ret)

\* A xapian_database call with read intent has returned a composite from a full reopen.
C15_Witness ==
    /\ CompositeReturned
    /\ last.op = "xapian_database"
    /\ EventsAt(last.events, {"reopen_composite_failed"}) # {}
    /\ Populated(last.ret) # {}

\* C16: in a composite that xapian_database or xapian_reopen returns, no handle is
\* attached twice.
C16_AttachedAtMostOnce ==
    CompositeReturned =>
        \A i, j \in 1..Len(composites[last.ret].attached) :
            composites[last.ret].attached[i] = composites[last.ret].attached[j] => i = j

\* C17: when the reopen() of the composite failed and xapian_reopen returned, the pool
\* maps the endpoints of the composite to the composite returned, which is not the one
\* whose reopen() failed.
C17_PoolHoldsTheRebuiltComposite ==
    (CompositeReturned /\ EventsAt(last.events, {"reopen_composite_failed"}) # {})
        => /\ EndpointsKey(composites[last.ret].endpoints) \in DOMAIN databases_pool
           /\ databases_pool[EndpointsKey(composites[last.ret].endpoints)] = last.ret
           /\ last.ret \notin TargetsOf(last.events, {"reopen_composite_failed"})

\* xapian_reopen, called on a composite, has returned another one after a full reopen.
C17_Witness ==
    /\ CompositeReturned
    /\ last.op = "xapian_reopen"
    /\ EventsAt(last.events, {"reopen_composite_failed"}) # {}
    /\ last.ret # last.arg

(***************************************************************************)
(* Keys and frames.                                                        *)
(***************************************************************************)
\* The step follows a write call that returned with another that returned.
TwoResolutions ==
    /\ last.op \in WriteOps /\ last.exc = NoExc
    /\ last'.op \in WriteOps /\ last'.exc = NoExc

\* C19: two resolutions of shards through the pool give the same handle only if their
\* endpoints are equal by value, the timeout of a remote endpoint included.
C19_SameHandleOnlyForEqualEndpoints ==
    [][TwoResolutions =>
          (TargetsOf(last.events, {"resolved"}) \cap TargetsOf(last'.events, {"resolved"}) # {}
               => last.arg.db = last'.arg.db)]_vars

\* C20: a xapian_index with a textual id that returns leaves every document of the
\* shard that is not stored under that id where it is and as it is.
C20_OtherDocumentsUnchanged ==
    [][(/\ last'.op = "xapian_index"
        /\ last'.exc = NoExc
        /\ last'.ret # None
        /\ IsString(last'.arg.document.document_id))
          => \A d \in DOMAIN shards[SubKey(last'.arg.db)].docs :
                 last'.arg.document.document_id.str \notin shards[SubKey(last'.arg.db)].docs[d].boolean_terms
                     => /\ d \in DOMAIN shards'[SubKey(last'.arg.db)].docs
                        /\ shards'[SubKey(last'.arg.db)].docs[d] = shards[SubKey(last'.arg.db)].docs[d]]_vars

====
